---- MODULE Spec2Model ----
(***************************************************************************)
(* The PostGIS demo notebook (examples/PostGIS Demo.ipynb) as a state      *)
(* machine: a run executes the cells Fetcher, Loader, Reader, Projector in *)
(* order against a local file, a remote URL and a PostgreSQL table.        *)
(***************************************************************************)
EXTENDS Integers, Sequences, FiniteSets, TLC

\* ------------------------------------------------------------------ bounds
MaxFeatures == 2
MaxRuns == 3

\* --------------------------------------------------------------- constants
SRID == 4326
EARTH_RADIUS == 6378137

PropKeys == {"ZIP", "STATE", "NAME", "ADDRESS", "COUNTY", "CITY", "DIRECTIONS"}

\* A GeoJSON feature: integer-degree coordinates and the seven properties.
\* Every property value is tagged with its feature and its key, so that a
\* swap of two columns or of two records is visible.
Feature(id, lon, lat) ==
    [coordinates |-> <<lon, lat>>,
     properties  |-> [k \in PropKeys |-> <<id, k>>]]

Features == {Feature("a", -87, 41), Feature("b", 0, 0), Feature("c", 10, 0)}

RECURSIVE SeqsUpTo(_, _)
SeqsUpTo(S, n) ==
    IF n = 0 THEN {<<>>}
    ELSE LET shorter == SeqsUpTo(S, n - 1)
         IN  shorter \cup {Append(s, x) : s \in {t \in shorter : Len(t) = n - 1}, x \in S}

Collections == SeqsUpTo(Features, MaxFeatures)

\* ------------------------------------------------------ number formatting
DigitChars == <<"0", "1", "2", "3", "4", "5", "6", "7", "8", "9">>

RECURSIVE NatDigits(_)
NatDigits(n) ==
    IF n < 10 THEN <<DigitChars[n + 1]>>
    ELSE Append(NatDigits(n \div 10), DigitChars[(n % 10) + 1])

\* '{}'.format(n) of a JSON integer
str(n) == IF n < 0 THEN <<"-">> \o NatDigits(-n) ELSE NatDigits(n)

IsDigit(c) == \E d \in 1..10 : DigitChars[d] = c
DigitVal(c) == (CHOOSE d \in 1..10 : DigitChars[d] = c) - 1

RECURSIVE ParseNat(_)
ParseNat(s) ==
    IF Len(s) = 1 THEN DigitVal(s[1])
    ELSE 10 * ParseNat(SubSeq(s, 1, Len(s) - 1)) + DigitVal(s[Len(s)])

IsNumber(s) ==
    LET body == IF Len(s) > 0 /\ s[1] = "-" THEN Tail(s) ELSE s
    IN  Len(body) > 0 /\ \A k \in 1..Len(body) : IsDigit(body[k])

ParseNum(s) == IF s[1] = "-" THEN -ParseNat(Tail(s)) ELSE ParseNat(s)

\* ----------------------------------------------------------- geometry text
\* 'SRID=4326;POINT({} {})'.format(lon, lat)
GeometryText(lon, lat) ==
    <<"SRID=">> \o str(SRID) \o <<";", "POINT(">> \o str(lon) \o <<" ">> \o str(lat) \o <<")">>

Index(s, c) == IF \E k \in 1..Len(s) : s[k] = c
               THEN CHOOSE k \in 1..Len(s) : s[k] = c /\ \A j \in 1..(k - 1) : s[j] # c
               ELSE 0

InvalidGeometry == [srid |-> 0, x |-> 0, y |-> 0, valid |-> FALSE]

\* The "(x y)" part of a point text, after "POINT(".
PointBody(t, srid) ==
    LET sp == Index(t, " ")
    IN  IF Len(t) < 4 \/ t[Len(t)] # ")" \/ sp < 2 \/ sp > Len(t) - 2
        THEN InvalidGeometry
        ELSE LET xs == SubSeq(t, 1, sp - 1)
                 ys == SubSeq(t, sp + 1, Len(t) - 1)
             IN  IF IsNumber(xs) /\ IsNumber(ys)
                 THEN [srid |-> srid, x |-> ParseNum(xs), y |-> ParseNum(ys), valid |-> TRUE]
                 ELSE InvalidGeometry

\* St_GeomFromText(%s) on an EWKT text: the store's native geometry value.
St_GeomFromText(t) ==
    LET semi == Index(t, ";")
    IN  IF Len(t) < 4 \/ t[1] # "SRID=" \/ semi < 3 \/ semi + 1 > Len(t) \/ t[semi + 1] # "POINT("
        THEN InvalidGeometry
        ELSE LET ds == SubSeq(t, 2, semi - 1)
             IN  IF IsNumber(ds)
                 THEN PointBody(SubSeq(t, semi + 2, Len(t)), ParseNum(ds))
                 ELSE InvalidGeometry

\* The store's text form of a geometry value, as the Reader hands it on.
St_AsEWKT(g) ==
    <<"SRID=">> \o str(g.srid) \o <<";", "POINT(">> \o str(g.x) \o <<" ">> \o str(g.y) \o <<")">>

\* shapely.wkt.loads on that text: the point's x and y.
wkt_loads(t) ==
    LET g == St_GeomFromText(t) IN [x |-> g.x, y |-> g.y]

\* ------------------------------------------------------- projector numerics
\* Floating-point values in fixed point: a finite value, or nan (0/0), or
\* inf (a non-zero value over zero), as numpy's scalar division yields them.
Num(v) == [kind |-> "num", v |-> v]
NaN == [kind |-> "nan", v |-> 0]
Inf(sign) == [kind |-> "inf", v |-> sign]

Abs(a) == IF a < 0 THEN -a ELSE a
Sign(a) == IF a < 0 THEN -1 ELSE IF a > 0 THEN 1 ELSE 0

\* Division rounding toward zero, for either sign of the operands (b # 0).
Quot(a, b) == Sign(a) * Sign(b) * (Abs(a) \div Abs(b))

\* a / b on float64 scalars: no exception, nan or inf on a zero divisor.
FDiv(a, b) ==
    IF b = 0 THEN (IF a = 0 THEN NaN ELSE Inf(Sign(a)))
    ELSE Num(Quot(a, b))

\* np.pi, times 1000
Pi1000 == 3142

\* np.radians(deg), in milliradians
radians(deg) == Quot(deg * Pi1000, 180)

\* np.log(np.tan(np.pi / 4. + phi / 2.)) for phi in milliradians, times 1000
\* (the odd series phi + phi^3/6 + phi^5/24; 0 at phi = 0).
log_tan(phi) ==
    LET p2 == Quot(phi * phi, 1000)
        p3 == Quot(p2 * phi, 1000)
        p5 == Quot(p3 * p2, 1000)
    IN  phi + Quot(p3, 6) + Quot(p5, 24)

\* x = EARTH_RADIUS * np.radians(lon), in metres
lon_to_mercx(lon) == (EARTH_RADIUS \div 1000) * radians(lon)

\* y = 180. / np.pi * np.log(np.tan(np.pi / 4. + lat * (np.pi / 180.) / 2.)) * x / lon
lat_to_mercy(lon, lat) ==
    LET x      == lon_to_mercx(lon)
        factor == Quot(Quot(180 * 1000000, Pi1000) * log_tan(radians(lat)), 1000)
    IN  FDiv(factor * Quot(x, 1000), lon)

wkt_to_x(pt) == Num(lon_to_mercx(wkt_loads(pt).x))

wkt_to_y(pt) ==
    LET point == wkt_loads(pt) IN lat_to_mercy(point.x, point.y)

\* ------------------------------------------------------------------- store
\* fortune500: absent, or present with its rows in the order of insertion.
NoTable == [exists |-> FALSE, rows |-> <<>>]
Table(rows) == [exists |-> TRUE, rows |-> rows]

\* The Loader connection's transaction: none, or its own view of fortune500.
NoTxn == [active |-> FALSE, t |-> NoTable]
Txn(t) == [active |-> TRUE, t |-> t]

NoFile == [exists |-> FALSE, features |-> <<>>, whole |-> FALSE]
NoData == [loaded |-> FALSE, features |-> <<>>]
NoPoints == [read |-> FALSE, columns |-> <<>>, rows |-> <<>>]

\* The insert's parameters with city and county exchanged.
InsertParamsSwapped(feature) ==
    LET lon   == feature.coordinates[1]
        lat   == feature.coordinates[2]
        props == feature.properties
    IN  <<GeometryText(lon, lat), props["NAME"], props["ADDRESS"], props["COUNTY"],
          props["STATE"], props["ZIP"], props["CITY"], props["DIRECTIONS"]>>

\* The parameters of one insert, in the order of the table's columns:
\* (location, name, address, city, state, zip_code, county, directions).
InsertParams(feature) ==
    LET lon   == feature.coordinates[1]
        lat   == feature.coordinates[2]
        props == feature.properties
    IN  <<GeometryText(lon, lat), props["NAME"], props["ADDRESS"], props["CITY"],
          props["STATE"], props["ZIP"], props["COUNTY"], props["DIRECTIONS"]>>

\* create table fortune500 (location geometry(point, 4326), name text, ...)
TableColumns ==
    <<"location", "name", "address", "city", "state", "zip_code", "county", "directions">>

\* insert into fortune500 values (St_GeomFromText(%s), %s, ...): the stored row.
StoredRow(params) ==
    [location   |-> St_GeomFromText(params[1]),
     name       |-> params[2],
     address    |-> params[3],
     city       |-> params[4],
     state      |-> params[5],
     zip_code   |-> params[6],
     county     |-> params[7],
     directions |-> params[8]]

\* The column type geometry(point, 4326) refuses any other geometry.
InsertAccepted(params) ==
    LET g == St_GeomFromText(params[1]) IN g.valid /\ g.srid = SRID

\* A drop that removes nothing.
ExecDropKeeps(t) == t

\* drop table if exists fortune500
ExecDrop(t) == NoTable

\* create table fortune500 (...): an error when the table exists.
CreateAccepted(t) == ~t.exists

ExecCreate(t) == Table(<<>>)

ExecInsert(t, params) == Table(Append(t.rows, StoredRow(params)))

\* A connection on which every statement is committed as it is executed.
autocommit_on == TRUE

\* psycopg2's connection default: statements run in a transaction that only
\* conn.commit() makes visible to other connections.
autocommit == FALSE

RECURSIVE RowsOf(_)
RowsOf(c) ==
    IF c = <<>> THEN <<>>
    ELSE Append(RowsOf(SubSeq(c, 1, Len(c) - 1)), StoredRow(InsertParams(c[Len(c)])))

\* The tables the store may hold before the first run.
OldTables == {NoTable, Table(<<>>)} \cup {Table(RowsOf(<<f>>)) : f \in Features}

\* ------------------------------------------------------------------- state
VARIABLES
    remote,    \* the feature collection the URL serves
    file,      \* the local path: NoFile, or [features, whole]
    fstart,    \* the local path as it was when the run's Fetcher started
    requests,  \* network requests issued in this run
    table,     \* fortune500 as committed: what any other connection sees
    pre,       \* fortune500 as committed when the run started
    work,      \* fortune500 inside the Loader's open transaction, or NoTxn
    conn,      \* the Loader's connection: "none", "open", "closed"
    data,      \* json.load(fp), or NoData
    idx,       \* the insert loop's position in data['features']
    points,    \* the Reader's table: [columns, rows], or NoPoints
    pc,        \* the statement the run is at
    err,       \* the error that ended the run, or "none"
    stages,    \* the stages started in this run, in order
    run,       \* the number of the run
    file0,     \* the local path before the first run
    prev       \* the last Loader run committed in an earlier run: its input and table

vars == <<remote, file, fstart, requests, table, pre, work, conn, data, idx,
          points, pc, err, stages, run, file0, prev>>

WholeFile(c) == [exists |-> TRUE, features |-> c, whole |-> TRUE]

\* A write that failed after k features' worth of bytes: not a JSON document.
PartialFile(c, k) == [exists |-> TRUE, features |-> SubSeq(c, 1, k), whole |-> FALSE]

\* os.path.isfile(fpath)
isfile(f) == f.exists

\* A Fetcher that downloads whether or not the file is there.
FetcherNeverSkips(f) == FALSE

\* The branch the Fetcher cell takes: skip the download when the file is there.
FetcherSkips(f) == isfile(f)

\* The local file is absent or already in place. A file in place is never
\* replaced and the URL is then never read, so its content stands for any
\* local collection.
Init ==
    /\ remote \in Collections
    /\ file \in {NoFile, WholeFile(remote)}
    /\ fstart = file
    /\ requests = 0
    /\ table \in OldTables
    /\ pre = table
    /\ work = NoTxn
    /\ conn = "none"
    /\ data = NoData
    /\ idx = 1
    /\ points = NoPoints
    /\ pc = "Fetcher"
    /\ err = "none"
    /\ stages = <<>>
    /\ run = 1
    /\ file0 = file
    /\ prev = [done |-> FALSE, features |-> <<>>, rows |-> <<>>]

InStages(s) == \E k \in 1..Len(stages) : stages[k] = s

\* The Loader cell of this run has committed.
LoaderDone == pc \in {"L_close", "Reader"} \/ InStages("Reader")

\* An exception leaves the cell; the notebook run stops there.
Raise(e) == pc' = "failed" /\ err' = e

\* ----------------------------------------------------------------- Fetcher
\* if os.path.isfile(fpath): print(... skipping download)
FetcherSkip ==
    /\ pc = "Fetcher"
    /\ FetcherSkips(file)
    /\ stages' = Append(stages, "Fetcher")
    /\ pc' = "L_connect"
    /\ UNCHANGED <<remote, file, fstart, requests, table, pre, work, conn, data, idx,
                   points, err, run, file0, prev>>

\* requests.get(url) raises: ValueError('Download error ...')
FetcherDownloadError ==
    /\ pc = "Fetcher"
    /\ ~FetcherSkips(file)
    /\ stages' = Append(stages, "Fetcher")
    /\ requests' = requests + 1
    /\ Raise("DownloadError")
    /\ UNCHANGED <<remote, file, fstart, table, pre, work, conn, data, idx, points, run, file0, prev>>

\* open(fpath, 'wb') raises: nothing is written; ValueError('File write error ...')
FetcherOpenError ==
    /\ pc = "Fetcher"
    /\ ~FetcherSkips(file)
    /\ stages' = Append(stages, "Fetcher")
    /\ requests' = requests + 1
    /\ Raise("WriteError")
    /\ UNCHANGED <<remote, file, fstart, table, pre, work, conn, data, idx, points, run, file0, prev>>

\* open(fpath, 'wb') creates the file and fp.write raises part-way: the file
\* stays, holding a part of the body; ValueError('File write error ...')
FetcherWriteError ==
    /\ pc = "Fetcher"
    /\ ~FetcherSkips(file)
    /\ stages' = Append(stages, "Fetcher")
    /\ requests' = requests + 1
    /\ \E k \in 0..Len(remote) : file' = PartialFile(remote, k)
    /\ Raise("WriteError")
    /\ UNCHANGED <<remote, fstart, table, pre, work, conn, data, idx, points, run, file0, prev>>

\* the download and the write both succeed
FetcherSuccess ==
    /\ pc = "Fetcher"
    /\ ~FetcherSkips(file)
    /\ stages' = Append(stages, "Fetcher")
    /\ requests' = requests + 1
    /\ file' = WholeFile(remote)
    /\ pc' = "L_connect"
    /\ UNCHANGED <<remote, fstart, table, pre, work, conn, data, idx, points, err, run, file0, prev>>

\* ------------------------------------------------------------------ Loader
\* What other connections see after a statement of the open transaction.
Visible(t, w) == IF autocommit THEN w.t ELSE t

\* conn = psycopg2.connect(host='localhost', ...)
LoaderConnect ==
    /\ pc = "L_connect"
    /\ stages' = Append(stages, "Loader")
    /\ conn' = "open"
    /\ pc' = "L_load"
    /\ UNCHANGED <<remote, file, fstart, requests, table, pre, work, data, idx,
                   points, err, run, file0, prev>>

\* with open(fpath, 'r') as fp: data = json.load(fp)
LoaderLoad ==
    /\ pc = "L_load"
    /\ isfile(file) /\ file.whole
    /\ data' = [loaded |-> TRUE, features |-> file.features]
    /\ pc' = "L_drop"
    /\ UNCHANGED <<remote, file, fstart, requests, table, pre, work, conn, idx,
                   points, err, stages, run, file0, prev>>

\* json.load raises on a file that is no complete document (or open raises on
\* a missing one); nothing closes the connection.
LoaderLoadError ==
    /\ pc = "L_load"
    /\ ~(isfile(file) /\ file.whole)
    /\ Raise("ReadError")
    /\ UNCHANGED <<remote, file, fstart, requests, table, pre, work, conn, data, idx,
                   points, stages, run, file0, prev>>

\* cursor = conn.cursor(); cursor.execute('drop table if exists fortune500')
LoaderDrop ==
    /\ pc = "L_drop"
    /\ work' = Txn(ExecDrop(table))
    /\ table' = Visible(table, work')
    /\ pc' = "L_create"
    /\ UNCHANGED <<remote, file, fstart, requests, pre, conn, data, idx, points, err,
                   stages, run, file0, prev>>

\* cursor.execute('create table fortune500 (...)')
LoaderCreate ==
    /\ pc = "L_create"
    /\ CreateAccepted(work.t)
    /\ work' = Txn(ExecCreate(work.t))
    /\ table' = Visible(table, work')
    /\ idx' = 1
    /\ pc' = IF Len(data.features) = 0 THEN "L_commit" ELSE "L_insert"
    /\ UNCHANGED <<remote, file, fstart, requests, pre, conn, data, points, err,
                   stages, run, file0, prev>>

\* for feature in data['features']: cursor.execute('insert into fortune500 ...')
LoaderInsert ==
    /\ pc = "L_insert"
    /\ InsertAccepted(InsertParams(data.features[idx]))
    /\ work' = Txn(ExecInsert(work.t, InsertParams(data.features[idx])))
    /\ table' = Visible(table, work')
    /\ idx' = idx + 1
    /\ pc' = IF idx = Len(data.features) THEN "L_commit" ELSE "L_insert"
    /\ UNCHANGED <<remote, file, fstart, requests, pre, conn, data, points, err,
                   stages, run, file0, prev>>

\* conn.commit()
LoaderCommit ==
    /\ pc = "L_commit"
    /\ table' = work.t
    /\ work' = NoTxn
    /\ pc' = "L_close"
    /\ UNCHANGED <<remote, file, fstart, requests, pre, conn, data, idx, points, err,
                   stages, run, file0, prev>>

\* conn.close()
LoaderClose ==
    /\ pc = "L_close"
    /\ conn' = "closed"
    /\ pc' = "Reader"
    /\ UNCHANGED <<remote, file, fstart, requests, table, pre, work, data, idx,
                   points, err, stages, run, file0, prev>>

\* psycopg2.connect raises: no connection was opened.
LoaderConnectError ==
    /\ pc = "L_connect"
    /\ stages' = Append(stages, "Loader")
    /\ Raise("StoreError")
    /\ UNCHANGED <<remote, file, fstart, requests, table, pre, work, conn, data, idx,
                   points, run, file0, prev>>

\* A statement or the commit raises (the store refuses it, the connection
\* drops): the exception leaves the cell, past conn.commit() and conn.close().
\* The transaction was not committed.
LoaderStoreError ==
    /\ pc \in {"L_drop", "L_create", "L_insert", "L_commit"}
    /\ Raise("StoreError")
    /\ UNCHANGED <<remote, file, fstart, requests, table, pre, work, conn, data, idx,
                   points, stages, run, file0, prev>>

\* ------------------------------------------------------------------ Reader
\* The table a query returns: the selected columns, the geometry as text.
ResultRow(r) ==
    [location   |-> St_AsEWKT(r.location),
     name       |-> r.name,
     address    |-> r.address,
     city       |-> r.city,
     state      |-> r.state,
     zip_code   |-> r.zip_code,
     county     |-> r.county,
     directions |-> r.directions]

\* 'select * from fortune500' has no ORDER BY: the store may return the rows
\* in any order.
ResultOrders(n) == Permutations(1..n)

\* points = catalog.fortune500.read()
Reader ==
    /\ pc = "Reader"
    /\ table.exists
    /\ stages' = Append(stages, "Reader")
    /\ \E p \in ResultOrders(Len(table.rows)) :
          points' = [read    |-> TRUE,
                     columns |-> TableColumns,
                     rows    |-> [i \in 1..Len(table.rows) |-> ResultRow(table.rows[p[i]])]]
    /\ pc' = "Projector"
    /\ UNCHANGED <<remote, file, fstart, requests, table, pre, work, conn, data, idx,
                   err, run, file0, prev>>

\* the connection or the query fails
ReaderError ==
    /\ pc = "Reader"
    /\ stages' = Append(stages, "Reader")
    /\ Raise("StoreError")
    /\ UNCHANGED <<remote, file, fstart, requests, table, pre, work, conn, data, idx,
                   points, run, file0, prev>>

\* --------------------------------------------------------------- Projector
\* np.vectorize(f)(values): f on every element; without otypes it raises
\* ValueError on an input of size 0.
VectorizeAccepts(values) == Len(values) > 0

vectorize_wkt_to_y(values) == [i \in 1..Len(values) |-> wkt_to_y(values[i])]

vectorize_wkt_to_x(values) == [i \in 1..Len(values) |-> wkt_to_x(values[i])]

Column(df, name) == [i \in 1..Len(df.rows) |-> df.rows[i][name]]

\* points[name] = values: a new last column.
SetColumn(df, name, values) ==
    [read    |-> df.read,
     columns |-> Append(df.columns, name),
     rows    |-> [i \in 1..Len(df.rows) |-> df.rows[i] @@ (name :> values[i])]]

\* points['y'] = np.vectorize(wkt_to_y)(...); points['x'] = np.vectorize(wkt_to_x)(...)
Projector ==
    /\ pc = "Projector"
    /\ VectorizeAccepts(Column(points, "location"))
    /\ stages' = Append(stages, "Projector")
    /\ LET withY == SetColumn(points, "y", vectorize_wkt_to_y(Column(points, "location")))
       IN  points' = SetColumn(withY, "x", vectorize_wkt_to_x(Column(withY, "location")))
    /\ pc' = "done"
    /\ UNCHANGED <<remote, file, fstart, requests, table, pre, work, conn, data, idx,
                   err, run, file0, prev>>

\* np.vectorize raises on the empty table; points is left as read.
ProjectorError ==
    /\ pc = "Projector"
    /\ ~VectorizeAccepts(Column(points, "location"))
    /\ stages' = Append(stages, "Projector")
    /\ Raise("ValueError")
    /\ UNCHANGED <<remote, file, fstart, requests, table, pre, work, conn, data, idx,
                   points, run, file0, prev>>

\* --------------------------------------------------------------------- run
\* The notebook is run again from the top in a fresh kernel: the process's
\* connections are gone (the store rolls an open transaction back), the file
\* and the committed table stay.
RunAll ==
    /\ pc \in {"done", "failed"}
    /\ run < MaxRuns
    /\ run' = run + 1
    /\ pc' = "Fetcher"
    /\ err' = "none"
    /\ stages' = <<>>
    /\ requests' = 0
    /\ fstart' = file
    /\ pre' = table
    /\ work' = NoTxn
    /\ conn' = "none"
    /\ data' = NoData
    /\ idx' = 1
    /\ points' = NoPoints
    /\ prev' = IF LoaderDone
               THEN [done |-> TRUE, features |-> data.features, rows |-> table.rows]
               ELSE prev
    /\ UNCHANGED <<remote, file, table, file0>>

Next ==
    \/ FetcherSkip
    \/ FetcherDownloadError
    \/ FetcherOpenError
    \/ FetcherWriteError
    \/ FetcherSuccess
    \/ LoaderConnect
    \/ LoaderConnectError
    \/ LoaderLoad
    \/ LoaderLoadError
    \/ LoaderDrop
    \/ LoaderCreate
    \/ LoaderInsert
    \/ LoaderCommit
    \/ LoaderClose
    \/ LoaderStoreError
    \/ Reader
    \/ ReaderError
    \/ Projector
    \/ ProjectorError
    \/ RunAll

Spec == Init /\ [][Next]_vars

\* ================================================================== claims
\* The Fetcher cell of this run has been executed.
FetcherRan == InStages("Fetcher")

\* The Fetcher cell of this run has returned without raising.
FetcherReturned == FetcherRan /\ ~(pc = "failed" /\ Len(stages) = 1)

\* The row the i-th feature of a collection is to be stored as.
ExpectedRow(f) ==
    [location   |-> [srid |-> 4326, x |-> f.coordinates[1], y |-> f.coordinates[2],
                     valid |-> TRUE],
     name       |-> f.properties["NAME"],
     address    |-> f.properties["ADDRESS"],
     city       |-> f.properties["CITY"],
     state      |-> f.properties["STATE"],
     zip_code   |-> f.properties["ZIP"],
     county     |-> f.properties["COUNTY"],
     directions |-> f.properties["DIRECTIONS"]]

\* C1: a Fetcher run that found the local file in place issued no network
\* request and left the file as it was, in every run of any sequence of runs.
C1_FetcherIdempotent ==
    (FetcherRan /\ isfile(fstart)) => (requests = 0 /\ file = fstart)

\* C1 witness: a second run has skipped the download of a file that the first
\* run fetched.
C1_Witness ==
    /\ run >= 2
    /\ FetcherReturned
    /\ ~isfile(file0)
    /\ isfile(fstart)
    /\ requests = 0
    /\ file = WholeFile(remote)
    /\ Len(remote) > 0

\* C2: starting without the local file, every Fetcher run that returns
\* without raising leaves the file holding the complete content of the URL,
\* so no failed write leaves a file a later run accepts.
C2_FetcherPostcondition ==
    (~isfile(file0) /\ FetcherReturned) => file = WholeFile(remote)

\* C3: whatever fortune500 held, the Loader's create meets no table (the drop
\* removed it), and a Loader run on the input of an earlier committed run
\* leaves exactly that run's rows, in number and content.
C3_ReplaceSemantics ==
    /\ pc = "L_create" => ~work.t.exists
    /\ (LoaderDone /\ prev.done /\ prev.features = data.features) =>
          /\ table.exists
          /\ Len(table.rows) = Len(prev.rows)
          /\ table.rows = prev.rows

\* C3 witness: a second Loader run has committed over the non-empty table the
\* first one left, on the same input.
C3_Witness ==
    /\ run >= 2
    /\ LoaderDone
    /\ prev.done
    /\ prev.features = data.features
    /\ Len(data.features) >= 1
    /\ pre = Table(prev.rows)
    /\ table = pre

\* C4: after a committed Loader run over n features the table holds n rows,
\* the i-th being feature i's point (lon, lat) with SRID 4326 and its NAME,
\* ADDRESS, CITY, STATE, ZIP, COUNTY, DIRECTIONS in the columns name,
\* address, city, state, zip_code, county, directions.
C4_OneToOne ==
    LoaderDone =>
        /\ table.exists
        /\ Len(table.rows) = Len(data.features)
        /\ \A i \in 1..Len(data.features) : table.rows[i] = ExpectedRow(data.features[i])

\* C4 witness: a committed load of two different features.
C4_Witness ==
    /\ LoaderDone
    /\ Len(data.features) >= 2
    /\ data.features[1] # data.features[2]
    /\ data.features[1].coordinates[1] # data.features[1].coordinates[2]

\* C5: in every state another connection sees fortune500 either as it was
\* before the run or, once the Loader has committed, as the complete new
\* table: never the dropped or the partly filled one.
C5_BatchAtomic ==
    IF LoaderDone
    THEN /\ table.exists
         /\ Len(table.rows) = Len(data.features)
         /\ \A i \in 1..Len(data.features) : table.rows[i] = ExpectedRow(data.features[i])
    ELSE table = pre

\* C5 witness: an insert has failed part-way through the batch, over an
\* existing table.
C5_Witness ==
    /\ pc = "failed"
    /\ err = "StoreError"
    /\ work.active
    /\ Len(work.t.rows) >= 1
    /\ Len(work.t.rows) < Len(data.features)
    /\ pre.exists
    /\ Len(pre.rows) >= 1
    /\ table = pre

\* C6: with the file already local, a completed run yields n rows, row i from
\* feature i, each with the 7 attribute columns and the 2 projected columns.
C6_EndToEndOrder ==
    (pc = "done" /\ isfile(fstart)) =>
        /\ Len(points.rows) = Len(data.features)
        /\ points.columns = TableColumns \o <<"y", "x">>
        /\ \A i \in 1..Len(data.features) :
              /\ points.rows[i].location = St_AsEWKT(ExpectedRow(data.features[i]).location)
              /\ \A c \in {"name", "address", "city", "state", "zip_code", "county", "directions"} :
                    points.rows[i][c] = ExpectedRow(data.features[i])[c]
              /\ points.rows[i].x.kind \in {"num", "nan", "inf"}
              /\ points.rows[i].y.kind \in {"num", "nan", "inf"}

\* C7: every projected row on the equator (lat = 0), whatever its longitude,
\* has the number 0 as its planar y.
C7_EquatorMapsToZero ==
    pc = "done" =>
        \A i \in 1..Len(points.rows) :
            wkt_loads(points.rows[i].location).y = 0 => points.rows[i].y = Num(0)

\* What does hold of the equator: the planar y is 0 at every longitude but 0,
\* where it is nan.
EquatorOffZeroLongitude ==
    pc = "done" =>
        \A i \in 1..Len(points.rows) :
            LET point == wkt_loads(points.rows[i].location)
            IN  /\ (point.y = 0 /\ point.x # 0) => points.rows[i].y = Num(0)
                /\ point.x = 0 => points.rows[i].y = NaN

\* The stages of a run start in pipeline order, each at most once, with at
\* most one network request, and a failed run has started nothing after the
\* stage that failed.
StagesInOrder ==
    /\ stages = SubSeq(<<"Fetcher", "Loader", "Reader", "Projector">>, 1, Len(stages))
    /\ requests <= 1
    /\ pc = "failed" => err # "none"
    /\ pc = "done" => Len(stages) = 4

\* A row whose transform is undefined: longitude 0.
UndefinedInput(df) == \E i \in 1..Len(df.rows) : wkt_loads(df.rows[i].location).x = 0

\* C8: the stages run in order, each at most once, and a stage that fails
\* ends the run; an undefined transform input (longitude 0) is such a
\* failure, so no run with one completes.
C8_FailFast ==
    /\ StagesInOrder
    /\ (points.read /\ UndefinedInput(points)) => pc # "done"

\* C9: outside the Loader stage its connection is not open, however the stage
\* was left.
C9_ConnectionClosed ==
    pc \notin {"L_load", "L_drop", "L_create", "L_insert", "L_commit", "L_close"} =>
        conn # "open"

\* C10: a Projector step on a table of n rows completes with the n rows in
\* the same order, every column it had unchanged, the two columns y and x
\* added, each from its own row's location, and the store untouched.
C10_ProjectorFrame ==
    [][pc = "Projector" =>
         /\ pc' = "done"
         /\ Len(points'.rows) = Len(points.rows)
         /\ points'.columns = points.columns \o <<"y", "x">>
         /\ \A i \in 1..Len(points.rows) :
               /\ \A c \in DOMAIN points.rows[i] : points'.rows[i][c] = points.rows[i][c]
               /\ points'.rows[i].x = wkt_to_x(points.rows[i].location)
               /\ points'.rows[i].y = wkt_to_y(points.rows[i].location)
         /\ table' = table]_vars

\* What does hold of the Projector: the frame and the row-wise values, on
\* every table of at least one row.
ProjectorFrameNonEmpty ==
    [][(pc = "Projector" /\ Len(points.rows) > 0) =>
         /\ pc' = "done"
         /\ Len(points'.rows) = Len(points.rows)
         /\ points'.columns = points.columns \o <<"y", "x">>
         /\ \A i \in 1..Len(points.rows) :
               /\ \A c \in DOMAIN points.rows[i] : points'.rows[i][c] = points.rows[i][c]
               /\ points'.rows[i].x = wkt_to_x(points.rows[i].location)
               /\ points'.rows[i].y = wkt_to_y(points.rows[i].location)
         /\ table' = table]_vars

====
